---------------------------- MODULE Spec2Model ----------------------------
(***************************************************************************)
(* webpack-bundle-analyzer: the stats-to-chart-data pipeline               *)
(* (analyzer.getViewerData and its helpers) and the live report server     *)
(* (viewer.startServer / updateChartData).                                 *)
(*                                                                         *)
(* File names are sequences of one-character strings, so that the two      *)
(* regular expressions of the analyzer act on the characters of a name.    *)
(* A JavaScript object used as an ordered map (`assets`, `bundlesSources`) *)
(* is a sequence of <<key, value>> entries in insertion order; a lookup    *)
(* table (`parsedModules`) is a function.                                  *)
(***************************************************************************)
EXTENDS Integers, Sequences, FiniteSets, TLC

VARIABLES
    pc,            \* analyzer run: "input" before getViewerData, "done" after
    bundleStats,   \* the stats object handed to getViewerData, which the call changes
    bundleDir,     \* TRUE when a bundle directory is supplied, FALSE for null
    disk,          \* what parseBundle finds for each file name of bundleDir
    excludeAssets, \* opts.excludeAssets: a sequence of patterns
    viewerData,    \* what getViewerData produced (or that it threw)
    started,       \* report server: startServer returned a server object
    chartData,     \* report server: the chart data held in startServer's closure
    clients,       \* report server: wss.clients in connection order
    readyState,    \* report server: readyState of each viewer's socket
    inbox,         \* report server: messages the latest updateChartData delivered to each client
    log,           \* report server: what the ws 'error' listeners have logged
    errors,        \* report server: the 'error' events of failed sends not yet handled
    reportFile,    \* viewer: the report file a report generator is writing or wrote
    call,          \* report server: the latest startServer/updateChartData call
    calls,         \* report server: number of updateChartData calls made
    root,          \* composition tree: the nodes below a root Folder
    added,         \* composition tree: the latest addModule call and the tree it found
    adds,          \* composition tree: number of addModule calls made
    opts,          \* plugin: this.opts (analyzerMode, startAnalyzer, generateStatsFile)
    server,        \* plugin: this.server, null or the promise createReporter returned
    reporters,     \* plugin: the createReporter calls made, each with the state of its promise
    doneStats,     \* plugin: the stats of the compiler's 'done' events so far, in order
    immediates,    \* plugin: the setImmediate callbacks waiting to run, in order
    reactions,     \* plugin: startAnalyzerServer calls suspended on a pending promise
    microtasks,    \* plugin: startAnalyzerServer calls ready to resume, in order
    updates,       \* plugin: the updateData calls made on report servers, in order
    statsFile,     \* plugin: the event whose stats the stats file holds, 0 when none
    reports        \* plugin: the event whose static report was generated last, 0 when none

vars == <<pc, bundleStats, bundleDir, disk, excludeAssets, viewerData,
          started, chartData, clients, readyState, inbox, log, errors, reportFile,
          call, calls,
          root, added, adds,
          opts, server, reporters, doneStats, immediates, reactions, microtasks,
          updates, statsFile, reports>>

analyzerVars == <<pc, bundleStats, bundleDir, disk, excludeAssets, viewerData>>
serverVars ==
    <<started, chartData, clients, readyState, inbox, log, errors, reportFile, call, calls>>
treeVars == <<root, added, adds>>
pluginVars == <<opts, server, reporters, doneStats, immediates, reactions, microtasks,
                updates, statsFile, reports>>

\* A value that may be missing (undefined or null) is a sequence of length at
\* most one: the empty sequence when missing, Def(x) when it is x.
Undefined == <<>>
Null == <<>>
Def(x) == <<x>>
Val(o) == o[1]

----------------------------------------------------------------------------
(* Sequence helpers                                                        *)

RECURSIVE FlattenSeq(_)
FlattenSeq(ss) ==
    IF ss = <<>> THEN <<>> ELSE Head(ss) \o FlattenSeq(Tail(ss))

Range(s) == { s[i] : i \in DOMAIN s }

SeqsUpTo(S, n) == UNION { [1..k -> S] : k \in 0..n }

\* s[from..] ends with suffix
EndsWith(s, suffix) ==
    /\ Len(s) >= Len(suffix)
    /\ SubSeq(s, Len(s) - Len(suffix) + 1, Len(s)) = suffix

\* pattern occurs in s as a contiguous substring
Contains(s, pattern) ==
    \E i \in 1..(Len(s) + 1) :
        /\ i + Len(pattern) - 1 <= Len(s)
        /\ SubSeq(s, i, i + Len(pattern) - 1) = pattern

----------------------------------------------------------------------------
(* File names                                                              *)

\* A character outside ASCII is written by its code point: "U+2028".
\* The characters that "." of a regular expression without the s flag does
\* not match: LF, CR, LINE SEPARATOR and PARAGRAPH SEPARATOR
LineTerminators == { "\n", "\r", "U+2028", "U+2029" }

\* the canonical form under which the i and u flags compare a character
\* with the letters of the four extensions: Unicode simple case folding,
\* which also takes LATIN SMALL LETTER LONG S to "s"
ToLower(c) ==
    CASE c = "J" -> "j"
      [] c = "S" -> "s"
      [] c = "U+017F" -> "s"
      [] c = "M" -> "m"
      [] c = "G" -> "g"
      [] c = "Z" -> "z"
      [] c = "B" -> "b"
      [] c = "R" -> "r"
      [] OTHER -> c

LowerCase(s) == [ i \in DOMAIN s |-> ToLower(s[i]) ]

\* name.replace(/\?.*$/u, ''): the leftmost "?" after which no line
\* terminator follows starts the match, which runs to the end of the name.
FILENAME_QUERY_REGEXP(name) ==
    LET starts == { i \in DOMAIN name :
                      /\ name[i] = "?"
                      /\ \A j \in (i + 1)..Len(name) : name[j] \notin LineTerminators }
    IN  IF starts = {} THEN name
        ELSE LET first == CHOOSE i \in starts : \A k \in starts : i <= k
             IN  SubSeq(name, 1, first - 1)

\* /\.(js|mjs|gz|br)$/iu.test(name)
FILENAME_EXTENSIONS(name) ==
    \E ext \in { <<".", "j", "s">>, <<".", "m", "j", "s">>,
                 <<".", "g", "z">>, <<".", "b", "r">> } :
        EndsWith(LowerCase(name), ext)

\* utils.createAssetsFilter(excludeAssets): the returned predicate.  Every
\* pattern is a string, matched anywhere in the file name; an asset is
\* included when no pattern matches it.
createAssetsFilter(patterns, name) ==
    \A i \in DOMAIN patterns : ~Contains(name, patterns[i])


----------------------------------------------------------------------------
(* Ordered maps: a JavaScript object with string keys, in insertion order  *)

Keys(m) == [ i \in DOMAIN m |-> m[i][1] ]

Has(m, k) == \E i \in DOMAIN m : m[i][1] = k

Get(m, k) == m[CHOOSE i \in DOMAIN m : m[i][1] = k][2]

\* m[k] = v: an existing key keeps its place and takes the new value
Put(m, k, v) ==
    IF Has(m, k)
    THEN [ i \in DOMAIN m |-> IF m[i][1] = k THEN <<k, v>> ELSE m[i] ]
    ELSE Append(m, <<k, v>>)

\* _.assign(f, g) on lookup tables
Assign(f, g) ==
    [ x \in (DOMAIN f) \cup (DOMAIN g) |-> IF x \in DOMAIN g THEN g[x] ELSE f[x] ]

EmptyTable == [ x \in {} |-> Undefined ]

----------------------------------------------------------------------------
(* analyzer.js: normalisation of the stats object                          *)

MarkChild(assets) == [ i \in DOMAIN assets |-> [ assets[i] EXCEPT !.isChild = TRUE ] ]

\* the children with the assets of those in `pushed` flagged: the flag is
\* set on the asset objects themselves, which the children keep
MarkIn(children, pushed) ==
    [ i \in DOMAIN children |->
        IF i \in pushed THEN [ children[i] EXCEPT !.assets = MarkChild(@) ]
        ELSE children[i] ]

\* The children-only branch: the first child becomes the working object and
\* the loop reads bundleStats.children[i] of that working object.  Reading
\* .assets of a missing element throws a TypeError, after the assets of the
\* elements before it have been pushed.  `pushed` are the children of the
\* working object whose assets were pushed.
ChildrenOnly(stats) ==
    LET children == stats.children
        first == children[1]
        pushed == { i \in 2..Len(children) : i <= Len(first.children) }
    IN  [ threw |-> \E i \in 2..Len(children) : i > Len(first.children),
          pushed |-> pushed,
          stats |-> [ first EXCEPT
              !.assets = @ \o FlattenSeq([ i \in 1..Cardinality(pushed) |->
                                             MarkChild(first.children[i + 1].assets) ]),
              !.children = MarkIn(@, pushed) ] ]

\* Children beside top-level assets: every asset of every child is appended
ChildrenBeside(stats) ==
    [ threw |-> FALSE,
      pushed |-> DOMAIN stats.children,
      stats |-> [ stats EXCEPT
          !.assets = @ \o FlattenSeq([ i \in DOMAIN stats.children |->
                                         MarkChild(stats.children[i].assets) ]),
          !.children = MarkIn(@, DOMAIN stats.children) ] ]

NormalizeStats(stats) ==
    IF stats.assets = <<>> /\ stats.children # <<>> THEN ChildrenOnly(stats)
    ELSE IF stats.children # <<>> THEN ChildrenBeside(stats)
    ELSE [ threw |-> FALSE, pushed |-> {}, stats |-> stats ]

\* asset.name = asset.name.replace(FILENAME_QUERY_REGEXP, '')
StripName(asset) == [ asset EXCEPT !.name = FILENAME_QUERY_REGEXP(@) ]

\* a filter that forgets the test of the chunks
IsRetainedWithoutChunks(asset, patterns) ==
    /\ FILENAME_EXTENSIONS(asset.name)
    /\ createAssetsFilter(patterns, asset.name)

\* the predicate of the _.filter over bundleStats.assets, on the stripped asset
IsRetained(asset, patterns) ==
    /\ FILENAME_EXTENSIONS(asset.name)
    /\ asset.chunks # <<>>
    /\ createAssetsFilter(patterns, asset.name)

FilterAssets(assets, patterns) ==
    LET stripped == [ i \in DOMAIN assets |-> StripName(assets[i]) ]
        Keep(a) == IsRetained(a, patterns)
    IN  SelectSeq(stripped, Keep)

----------------------------------------------------------------------------
(* analyzer.js: parsing the bundle files                                   *)

\* parseUtils.parseBundle(path.join(bundleDir, name)): the files of the
\* bundle directory are the environment; a missing or unparsable file throws.
parseBundle(files, name) ==
    IF name \in DOMAIN files /\ files[name].ok
    THEN files[name]
    ELSE [ ok |-> FALSE, src |-> <<>>, modules |-> EmptyTable ]

RECURSIVE ParseLoop(_, _, _, _)
ParseLoop(assets, files, sources, modules) ==
    IF assets = <<>> THEN [ bundlesSources |-> Def(sources), parsedModules |-> Def(modules) ]
    ELSE LET info == parseBundle(files, Head(assets).name)
         IN  IF ~info.ok
             THEN ParseLoop(Tail(assets), files, sources, modules)
             ELSE ParseLoop(Tail(assets), files,
                            Put(sources, Head(assets).name, info.src),
                            Assign(modules, info.modules))

\* bundlesSources / parsedModules after the `if (bundleDir)` block; Null
\* when no directory is supplied or no bundle was parsed
ParseBundles(assets, dir, files) ==
    IF ~dir THEN [ bundlesSources |-> Null, parsedModules |-> Null ]
    ELSE LET r == ParseLoop(assets, files, <<>>, EmptyTable)
         IN  IF Val(r.bundlesSources) = <<>>
             THEN [ bundlesSources |-> Null, parsedModules |-> Null ]
             ELSE r

HexDigits ==
    { "0", "1", "2", "3", "4", "5", "6", "7", "8", "9",
      "A", "B", "C", "D", "E", "F", "a", "b", "c", "d", "e", "f" }

\* a character is a one-character string when it is ASCII and else the
\* token of its code point: "U+" and four hex digits up to U+FFFF, five or
\* six hex digits above.  The tokens of the code points below U+0080:
OneByteTokens ==
    { "U+00" \o a \o b : a \in { "0", "1", "2", "3", "4", "5", "6", "7" },
                         b \in HexDigits }

\* the tokens of the code points from U+0080 to U+07FF
TwoByteTokens ==
    { "U+0" \o a \o b \o c : a \in { "0", "1", "2", "3", "4", "5", "6", "7" },
                              b \in HexDigits, c \in HexDigits } \ OneByteTokens

\* the number of bytes of a character in UTF-8: 1 below U+0080, 2 below
\* U+0800, 3 below U+10000, 4 above
Utf8Width(c) ==
    IF Len(c) = 1 \/ c \in OneByteTokens THEN 1
    ELSE IF c \in TwoByteTokens THEN 2
    ELSE IF Len(c) = 6 THEN 3
    ELSE 4

\* the number of UTF-16 code units of a character: 2 above U+FFFF
Utf16Width(c) == IF Len(c) > 6 THEN 2 ELSE 1

\* src.length: the length of the source in UTF-16 code units
RECURSIVE StringLength(_)
StringLength(src) ==
    IF src = <<>> THEN 0 ELSE Utf16Width(Head(src)) + StringLength(Tail(src))

\* Buffer.byteLength(src): the length of the source in UTF-8
RECURSIVE ByteLength(_)
ByteLength(src) ==
    IF src = <<>> THEN 0 ELSE Utf8Width(Head(src)) + ByteLength(Tail(src))

\* the sizes gzip (level 9) gives the source texts that occur here, as
\* <<text, bytes>> pairs
GzipTable ==
    { << <<>>, 20 >>,
      << <<"a", "(", ")", ";">>, 24 >>,
      << <<"b", "(", ")", ";", "b", ";">>, 26 >>,
      << <<"b", "(", ")", ";", "U+00E9", ";">>, 27 >>,
      << <<"a">>, 21 >>,
      << <<"b">>, 21 >>,
      << <<"(", ")">>, 22 >>,
      << <<"b", ";">>, 22 >>,
      << <<"U+00E9", ";">>, 23 >> }

\* gzipSize.sync(src)
GzipSize(src) == (CHOOSE p \in GzipTable : p[1] = src)[2]

----------------------------------------------------------------------------
(* analyzer.js: the modules of an asset                                    *)

\* a lookup that falls back to the working object itself
getChildAssetBundlesOrSelf(stats, assetName) ==
    LET Lists(c) == \E i \in DOMAIN c.assetsByChunkName :
                       assetName \in Range(c.assetsByChunkName[i][2])
        found == { i \in DOMAIN stats.children : Lists(stats.children[i]) }
    IN  IF found = {} THEN Def(stats)
        ELSE Def(stats.children[CHOOSE i \in found : \A j \in found : i <= j])

getChildAssetBundles(stats, assetName) ==
    LET Lists(c) == \E i \in DOMAIN c.assetsByChunkName :
                       assetName \in Range(c.assetsByChunkName[i][2])
        found == { i \in DOMAIN stats.children : Lists(stats.children[i]) }
    IN  IF found = {} THEN Undefined
        ELSE Def(stats.children[CHOOSE i \in found : \A j \in found : i <= j])

\* a uniqBy that keeps the last module of every id
RECURSIVE UniqByIdKeepLast(_, _)
UniqByIdKeepLast(modules, seen) ==
    IF modules = <<>> THEN <<>>
    ELSE IF \E i \in DOMAIN Tail(modules) : Tail(modules)[i].id = Head(modules).id
    THEN UniqByIdKeepLast(Tail(modules), seen)
    ELSE <<Head(modules)>> \o UniqByIdKeepLast(Tail(modules), seen)

\* _.uniqBy(modules, 'id'): the first module of every id, in order
RECURSIVE UniqById(_, _)
UniqById(modules, seen) ==
    IF modules = <<>> THEN <<>>
    ELSE IF Head(modules).id \in seen THEN UniqById(Tail(modules), seen)
    ELSE <<Head(modules)>> \o UniqById(Tail(modules), seen \cup { Head(modules).id })

\* _(chunks).map('modules').concat(modules).compact().flatten()
PoolModules(stats) ==
    LET perChunk == [ i \in DOMAIN stats.chunks |-> stats.chunks[i].modules ]
        Defined(x) == x # Undefined
        compact == SelectSeq(perChunk, Defined)
        topLevel == IF stats.modules = Undefined THEN <<>> ELSE Val(stats.modules)
    IN  FlattenSeq([ i \in DOMAIN compact |-> Val(compact[i]) ]) \o topLevel

getBundleModules(stats) == UniqById(PoolModules(stats), {})

assetHasModule(statAsset, statModule) ==
    /\ statModule.chunks # Undefined
    /\ \E i \in DOMAIN Val(statModule.chunks) :
          Val(statModule.chunks)[i] \in Range(statAsset.chunks)

----------------------------------------------------------------------------
(* tree/Folder.js: the composition tree.  A tree is the set of its nodes   *)
(* below the root, each with its path from the root; the root "." is the  *)
(* empty path.                                                             *)

\* tree/utils.getModulePathParts(moduleData): the path parts of a module
\* record, Null when the record has no usable path
getModulePathParts(moduleData) == moduleData.pathParts

IsPrefix(p, q) == Len(p) <= Len(q) /\ SubSeq(q, 1, Len(p)) = p

\* currentFolder.getChild(name) is there
IsNodeAt(tree, p) == \E i \in DOMAIN tree : tree[i].path = p

\* a walk that takes any child of that name for a folder
IsFolderAtIgnoringKind(tree, p) == \E i \in DOMAIN tree : tree[i].path = p

\* currentFolder.getChild(folderName) is there and is a Folder
IsFolderAt(tree, p) ==
    \E i \in DOMAIN tree : tree[i].path = p /\ tree[i].kind = "Folder"

NewFolder(p) == [ path |-> p, kind |-> "Folder", size |-> 0, id |-> Undefined, src |-> Undefined ]

\* new ModuleConstructor(fileName, moduleData, this)
NewModule(p, moduleData) ==
    [ path |-> p,
      kind |-> IF moduleData.concat THEN "ConcatenatedModule" ELSE "Module",
      size |-> moduleData.size,
      id |-> Def(moduleData.id),
      src |-> moduleData.parsedSrc ]

\* the position of the node with that path
IndexAt(tree, p) == CHOOSE i \in DOMAIN tree : tree[i].path = p

\* the tree without the nodes below path p
WithoutBelow(tree, p) ==
    LET Stays(n) == ~(IsPrefix(p, n.path) /\ n.path # p)
    IN  SelectSeq(tree, Stays)

\* BaseFolder.addChildFolder(folder): children[folder.name] = folder; a new
\* name comes last, a name that is there keeps its place and loses what
\* it held
addChildFolder(tree, folder) ==
    IF IsNodeAt(tree, folder.path)
    THEN LET kept == WithoutBelow(tree, folder.path)
         IN  [ kept EXCEPT ![IndexAt(kept, folder.path)] = folder ]
    ELSE Append(tree, folder)

\* BaseFolder.addChildModule(module): the new leaf is inserted at the final
\* segment, children[module.name] = module; a new name comes last, a name
\* that is there keeps its place and loses what it held
addChildModule(tree, module) ==
    IF IsNodeAt(tree, module.path)
    THEN LET kept == WithoutBelow(tree, module.path)
         IN  [ kept EXCEPT ![IndexAt(kept, module.path)] = module ]
    ELSE Append(tree, module)

\* the folders.forEach walk of addModule, from the k-th folder on
RECURSIVE WalkFolders(_, _, _)
WalkFolders(tree, parts, k) ==
    IF k >= Len(parts) THEN tree
    ELSE LET p == SubSeq(parts, 1, k)
         IN  IF IsFolderAt(tree, p) THEN WalkFolders(tree, parts, k + 1)
             ELSE WalkFolders(addChildFolder(tree, NewFolder(p)), parts, k + 1)

\* the path of the module node: an empty list of parts is not falsy, and
\* its last element, undefined, names the module
ModulePath(parts) == IF parts = <<>> THEN << "undefined" >> ELSE parts

addModule(tree, moduleData) ==
    LET pathParts == getModulePathParts(moduleData)
    IN  IF pathParts = Null THEN tree
        ELSE addChildModule(WalkFolders(tree, Val(pathParts), 1),
                            NewModule(ModulePath(Val(pathParts)), moduleData))

RECURSIVE createModulesTreeFrom(_, _)
createModulesTreeFrom(tree, modules) ==
    IF modules = <<>> THEN tree
    ELSE createModulesTreeFrom(addModule(tree, Head(modules)), Tail(modules))

\* the children of the node with path p, in the order of their names
ChildrenAt(tree, p) ==
    LET IsChild(n) == Len(n.path) = Len(p) + 1 /\ IsPrefix(p, n.path)
    IN  SelectSeq(tree, IsChild)

\* a folder whose only child is a folder
IsMergeable(tree, i) ==
    /\ tree[i].kind = "Folder"
    /\ Len(ChildrenAt(tree, tree[i].path)) = 1
    /\ ChildrenAt(tree, tree[i].path)[1].kind = "Folder"

\* this.name += '/' + onlyChild.name; this.children = onlyChild.children
MergeInto(tree, i) ==
    LET f == tree[i]
        c == ChildrenAt(tree, f.path)[1]
        merged == SubSeq(f.path, 1, Len(f.path) - 1)
                     \o << f.path[Len(f.path)] \o "/" \o c.path[Len(c.path)] >>
        NotChild(n) == n # c
        Moved(n) ==
            IF n = f THEN [ n EXCEPT !.path = merged ]
            ELSE IF IsPrefix(c.path, n.path)
            THEN [ n EXCEPT !.path = merged \o SubSeq(n.path, Len(c.path) + 1, Len(n.path)) ]
            ELSE n
        rest == SelectSeq(tree, NotChild)
    IN  [ k \in DOMAIN rest |-> Moved(rest[k]) ]

\* BaseFolder.mergeNestedFolders() of the root: below the root, every chain
\* of folders that are only children becomes one folder
RECURSIVE mergeNestedFolders(_)
mergeNestedFolders(tree) ==
    IF \E i \in DOMAIN tree : IsMergeable(tree, i)
    THEN mergeNestedFolders(MergeInto(tree, CHOOSE i \in DOMAIN tree : IsMergeable(tree, i)))
    ELSE tree

\* createModulesTree(modules)
createModulesTree(modules) == mergeNestedFolders(createModulesTreeFrom(<<>>, modules))

RECURSIVE SumSizes(_)
SumSizes(nodes) ==
    IF nodes = <<>> THEN 0
    ELSE Head(nodes).size + SumSizes(Tail(nodes))

\* BaseFolder.size of the root: the sum of the sizes of the modules in it
TreeSize(tree) ==
    LET IsModule(n) == n.kind # "Folder"
    IN  SumSizes(SelectSeq(tree, IsModule))

----------------------------------------------------------------------------
(* tree: the chart data of the nodes                                       *)

\* Node.path: the names from the root "." down to the node, joined by "/"
RECURSIVE PathLabel(_)
PathLabel(path) ==
    IF path = <<>> THEN "."
    ELSE PathLabel(SubSeq(path, 1, Len(path) - 1)) \o "/" \o path[Len(path)]

\* src of a node: the parsed source of a module, none counting as empty;
\* for a folder the sources of its children one after the other
RECURSIVE SrcOf(_, _)
SrcOf(tree, node) ==
    IF node.kind = "Folder"
    THEN LET children == ChildrenAt(tree, node.path)
         IN  FlattenSeq([ i \in DOMAIN children |-> SrcOf(tree, children[i]) ])
    ELSE IF node.src = Undefined THEN <<>> ELSE Val(node.src)

\* Folder.gzipSize with a source that is not empty reads
\* this.opts.compressedSize; createModulesTree makes the root without opts
\* and every folder takes the opts of the root, so that the read throws a
\* TypeError
ToChartDataThrows(tree) ==
    \E i \in DOMAIN tree : tree[i].kind = "Folder" /\ SrcOf(tree, tree[i]) # <<>>

\* size of a node: the declared size of a module, the sum over its
\* children for a folder
RECURSIVE SizeOf(_, _)
SizeOf(tree, node) ==
    IF node.kind = "Folder"
    THEN LET children == ChildrenAt(tree, node.path)
         IN  SumSizes([ i \in DOMAIN children |->
                          [ size |-> SizeOf(tree, children[i]) ] ])
    ELSE node.size

\* toChartData() of a module: id, label, path, statSize and, when it has a
\* parsed source, the length and the gzip size of that source
ModuleChartData(node) ==
    LET src == IF node.src = Undefined THEN <<>> ELSE Val(node.src)
    IN  [ id |-> Val(node.id),
          label |-> node.path[Len(node.path)],
          path |-> PathLabel(node.path),
          statSize |-> node.size,
          parsedSize |-> IF src = <<>> THEN Undefined ELSE Def(StringLength(src)),
          gzipSize |-> IF src = <<>> THEN Undefined ELSE Def(GzipSize(src)) ]

\* Folder.toChartData(): label, path, statSize and groups of the base
\* folder, then parsedSize and gzipSize of the folder's source, 0 when the
\* source is empty (a source that is not empty makes the call throw, see
\* ToChartDataThrows)
RECURSIVE toChartData(_, _)
toChartData(tree, node) ==
    IF node.kind = "Folder"
    THEN LET children == ChildrenAt(tree, node.path)
         IN  [ label |-> node.path[Len(node.path)],
               path |-> PathLabel(node.path),
               statSize |-> SizeOf(tree, node),
               groups |-> [ i \in DOMAIN children |-> toChartData(tree, children[i]) ],
               parsedSize |-> StringLength(SrcOf(tree, node)),
               gzipSize |-> 0 ]
    ELSE ModuleChartData(node)

\* _.invokeMap(asset.tree.children, 'toChartData')
Groups(tree) ==
    LET children == ChildrenAt(tree, <<>>)
    IN  [ i \in DOMAIN children |-> toChartData(tree, children[i]) ]

----------------------------------------------------------------------------
(* analyzer.js: getViewerData                                              *)

\* the record built for one retained asset by the first _.transform
AssetRecord(stats, statAsset, parsed) ==
    LET assetBundles == IF statAsset.isChild
                        THEN getChildAssetBundles(stats, statAsset.name)
                        ELSE Def(stats)
        modules == IF assetBundles # Undefined
                   THEN getBundleModules(Val(assetBundles)) ELSE <<>>
        hasSrc == /\ parsed.bundlesSources # Null
                  /\ Has(Val(parsed.bundlesSources), statAsset.name)
        src == Get(Val(parsed.bundlesSources), statAsset.name)
        Mine(m) == assetHasModule(statAsset, m)
        picked == SelectSeq(modules, Mine)
        withSrc == [ i \in DOMAIN picked |->
                       IF parsed.parsedModules = Null THEN picked[i]
                       ELSE [ picked[i] EXCEPT !.parsedSrc =
                                IF picked[i].id \in DOMAIN Val(parsed.parsedModules)
                                THEN Def(Val(parsed.parsedModules)[picked[i].id])
                                ELSE Undefined ] ]
    IN  [ size |-> statAsset.size,
          parsedSize |-> IF hasSrc THEN Def(ByteLength(src)) ELSE Undefined,
          gzipSize |-> IF hasSrc THEN Def(GzipSize(src)) ELSE Undefined,
          modules |-> withSrc,
          tree |-> createModulesTree(withSrc) ]

\* result[statAsset.name] = asset, for every retained asset in order
RECURSIVE BuildAssets(_, _, _, _)
BuildAssets(stats, retained, parsed, result) ==
    IF retained = <<>> THEN result
    ELSE BuildAssets(stats, Tail(retained), parsed,
                     Put(result, Head(retained).name,
                         AssetRecord(stats, Head(retained), parsed)))

\* statSize: asset.tree.size || asset.size
StatSize(asset) == IF TreeSize(asset.tree) # 0 THEN TreeSize(asset.tree) ELSE asset.size

\* the record pushed by the second _.transform
ChartRecord(filename, asset) ==
    [ label |-> filename,
      isAsset |-> TRUE,
      statSize |-> StatSize(asset),
      parsedSize |-> asset.parsedSize,
      gzipSize |-> asset.gzipSize,
      groups |-> Groups(asset.tree) ]

\* the number of pooled modules that come before those of the chunk at ci
RECURSIVE PoolOffset(_, _)
PoolOffset(chunks, ci) ==
    IF ci <= 1 THEN 0
    ELSE PoolOffset(chunks, ci - 1)
           + (IF chunks[ci - 1].modules = Undefined THEN 0
              ELSE Len(Val(chunks[ci - 1].modules)))

\* statModule.parsedSrc = parsedModules[statModule.id] as it shows in the
\* build-stats object that owns the pool: the modules picked for one of
\* `users` are the first of their id in the pool, and take the parsed source
WriteParsedSrc(owner, users, parsedModules) ==
    LET pool == PoolModules(owner)
        Picked(k) ==
            /\ \A j \in 1..(k - 1) : pool[j].id # pool[k].id
            /\ \E u \in users : assetHasModule(u, pool[k])
        Written(m, k) ==
            IF Picked(k)
            THEN [ m EXCEPT !.parsedSrc = IF m.id \in DOMAIN parsedModules
                                          THEN Def(parsedModules[m.id]) ELSE Undefined ]
            ELSE m
        top == PoolOffset(owner.chunks, Len(owner.chunks) + 1)
    IN  [ owner EXCEPT
            !.chunks = [ ci \in DOMAIN owner.chunks |->
                IF owner.chunks[ci].modules = Undefined THEN owner.chunks[ci]
                ELSE [ owner.chunks[ci] EXCEPT !.modules =
                         Def([ mi \in DOMAIN Val(@) |->
                                 Written(Val(@)[mi], PoolOffset(owner.chunks, ci) + mi) ]) ] ],
            !.modules = IF @ = Undefined THEN @
                        ELSE Def([ mi \in DOMAIN Val(@) |-> Written(Val(@)[mi], top + mi) ]) ]

\* the working object as the filter and the first _.transform leave it: the
\* retained assets in bundleStats.assets, the names of the pushed assets
\* stripped where the children hold them, and the parsed sources written
\* into the modules of the working object and of the children
WorkingAfter(norm, retained, parsed) ==
    LET w == norm.stats
        stripped == [ i \in DOMAIN w.children |->
                        IF i \in norm.pushed
                        THEN [ w.children[i] EXCEPT !.assets =
                                 [ j \in DOMAIN @ |-> StripName(@[j]) ] ]
                        ELSE w.children[i] ]
        filtered == [ w EXCEPT !.assets = retained, !.children = stripped ]
        Lists(c, name) == \E i \in DOMAIN c.assetsByChunkName :
                             name \in Range(c.assetsByChunkName[i][2])
        UsesChild(a, i) ==
            /\ a.isChild
            /\ Lists(w.children[i], a.name)
            /\ \A j \in 1..(i - 1) : ~Lists(w.children[j], a.name)
        own == { a \in Range(retained) : ~a.isChild }
    IN  IF parsed.parsedModules = Null THEN filtered
        ELSE LET written == WriteParsedSrc(filtered, own, Val(parsed.parsedModules))
             IN  [ written EXCEPT !.children =
                     [ i \in DOMAIN @ |->
                         WriteParsedSrc(@[i], { a \in Range(retained) : UsesChild(a, i) },
                                        Val(parsed.parsedModules)) ] ]

\* the stats object the caller handed in, as the call leaves it: in the
\* children-only shape the working object is its first child
ArgumentAfter(stats, working) ==
    IF stats.assets = <<>> /\ stats.children # <<>>
    THEN [ stats EXCEPT !.children[1] = working ]
    ELSE working

\* getViewerData(bundleStats, bundleDir, {excludeAssets}).  `retained` is
\* bundleStats.assets after the filter and `assets` the intermediate object
\* keyed by file name; both are kept beside the returned chartData, with
\* `stats`, the stats object handed in as the call leaves it.
getViewerData(stats, dir, files, patterns) ==
    LET norm == NormalizeStats(stats)
    IN  IF norm.threw
        THEN [ threw |-> TRUE, retained |-> <<>>, assets |-> <<>>, chartData |-> <<>>,
               stats |-> ArgumentAfter(stats, norm.stats) ]
        ELSE LET retained == FilterAssets(norm.stats.assets, patterns)
                 working == [ norm.stats EXCEPT !.assets = retained ]
                 parsed == ParseBundles(retained, dir, files)
                 assets == BuildAssets(working, retained, parsed, <<>>)
                 after == ArgumentAfter(stats, WorkingAfter(norm, retained, parsed))
             IN  IF \E i \in DOMAIN assets : ToChartDataThrows(assets[i][2].tree)
                 THEN [ threw |-> TRUE, retained |-> retained, assets |-> assets,
                        chartData |-> <<>>, stats |-> after ]
                 ELSE [ threw |-> FALSE,
                        retained |-> retained,
                        assets |-> assets,
                        chartData |-> [ i \in DOMAIN assets |->
                                          ChartRecord(assets[i][1], assets[i][2]) ],
                        stats |-> after ]

----------------------------------------------------------------------------
(* Inputs: stats objects as webpack emits them                             *)

MaxAssets == 2
MaxChildren == 2
MaxChunks == 2
MaxModules == 2

Asset(name, size, chunks) ==
    [ name |-> name, size |-> size, chunks |-> chunks, isChild |-> FALSE ]

StatModule(id, size, chunks, pathParts) ==
    [ id |-> id, size |-> size, chunks |-> chunks, pathParts |-> pathParts,
      concat |-> FALSE, parsedSrc |-> Undefined ]

Stats(assets, children, chunks, modules, assetsByChunkName) ==
    [ assets |-> assets, children |-> children, chunks |-> chunks,
      modules |-> modules, assetsByChunkName |-> assetsByChunkName ]

N_a == <<"a", ".", "j", "s">>
N_aq == <<"a", ".", "j", "s", "?", "v">>
N_b == <<"b", ".", "J", "S">>
N_c == <<"c", ".", "m", "j", "s">>
N_m == <<"m", ".", "j", "s", "o", "n", "?", "x", ".", "j", "s">>
N_d == <<"d", ".", "g", "z", "?">>
N_k == <<"k", ".", "j", "s", "?", "v">>
N_n == <<"n", ".", "b", "r">>
N_o == <<"o", ".", "j", "s">>

AssetPool ==
    { Asset(N_a, 5, <<0>>), Asset(N_aq, 6, <<0, 1>>), Asset(N_b, 7, <<1>>),
      Asset(N_c, 3, <<>>), Asset(N_m, 2, <<0>>), Asset(N_d, 4, <<1>>) }

M1 == StatModule(1, 4, Def(<<0>>), Def(<<"src", "a.js">>))
M2 == StatModule(2, 0, Def(<<0, 1>>), Def(<<"b.js">>))
M1dup == StatModule(1, 9, Def(<<1>>), Def(<<"x.js">>))
M3 == StatModule(3, 2, Undefined, Def(<<"src", "c.js">>))
M4 == StatModule(4, 3, Def(<<1>>), Null)
M5 == StatModule(5, 6, Def(<<0>>), Def(<<"lib", "k.js">>))
M6 == StatModule(6, 8, Def(<<1>>), Def(<<"lib">>))
M7 == StatModule(7, 1, Def(<<1>>), Def(<<"lib", "n.js">>))

Chunk(id, modules) == [ id |-> id, modules |-> modules ]

ChunkPool ==
    { Chunk(0, Def(<<M1, M2>>)), Chunk(1, Def(<<M2, M1dup>>)), Chunk(2, Undefined),
      Chunk(3, Def(<<M4, M3>>)) }

ModulePool == { M1dup, M3, M2 }

\* the chunk and module data of the top-level build in the inputs that vary
\* the assets and the children
TopChunks == << Chunk(0, Def(<<M1, M2>>)), Chunk(1, Def(<<M1dup, M4>>)) >>

K1 == Stats(<<Asset(N_k, 4, <<0>>)>>, <<>>, <<Chunk(0, Def(<<M5>>))>>, Undefined,
            << <<"main", <<N_k>>>> >>)
K2 == Stats(<<Asset(N_n, 9, <<1>>)>>, <<>>, <<Chunk(1, Def(<<M6, M7>>))>>, Def(<<M7>>),
            << <<"main", <<N_n>>>> >>)
K3 == Stats(<<Asset(N_o, 1, <<0>>)>>, <<K1, K2>>, <<Chunk(0, Def(<<M1>>))>>, Undefined,
            << <<"main", <<N_o>>>> >>)
K4 == Stats(<<Asset(N_o, 2, <<1>>), Asset(N_a, 3, <<0>>)>>, <<>>, <<Chunk(1, Def(<<M7>>))>>,
            Undefined, << <<"main", <<N_a, N_c>>>> >>)

ChildPool == { K1, K2, K3, K4 }

ExcludeChoices == { <<>>, << <<"b", ".">> >>, << <<"v">>, <<"o", ".">> >> }

Src_a == <<"a", "(", ")", ";">>
Src_b == <<"b", "(", ")", ";", "U+00E9", ";">>

File_a == [ ok |-> TRUE, src |-> Src_a,
            modules |-> (1 :> <<"a">>) @@ (2 :> <<"(", ")">>) ]
File_b == [ ok |-> TRUE, src |-> Src_b,
            modules |-> (2 :> <<"U+00E9", ";">>) @@ (4 :> <<"b">>) ]
Broken == [ ok |-> FALSE, src |-> <<>>, modules |-> EmptyTable ]

\* a bundle directory: what is on disk under each file name
DiskChoices ==
    { (N_a :> File_a) @@ (N_b :> File_b),
      (N_a :> Broken) @@ (N_b :> File_b),
      (N_a :> File_a),
      (N_a :> Broken) }

NoDisk == [ x \in {} |-> Broken ]

Input(stats, dir, files, patterns) ==
    [ stats |-> stats, dir |-> dir, files |-> files, patterns |-> patterns ]

\* inputs that vary the assets, the children and the exclusions
ShapeInputs ==
    { Input(Stats(assets, children, TopChunks, Undefined, <<>>), FALSE, NoDisk, patterns) :
        assets \in SeqsUpTo(AssetPool, MaxAssets),
        children \in SeqsUpTo(ChildPool, MaxChildren),
        patterns \in ExcludeChoices }

\* inputs that vary the chunk and module data and the bundle directory
PoolInputs ==
    { Input(Stats(assets, <<>>, chunks, modules, <<>>), TRUE, files, <<>>) :
        assets \in { <<Asset(N_a, 5, <<0>>), Asset(N_b, 7, <<1>>)>>,
                     <<Asset(N_b, 7, <<1, 3>>), Asset(N_aq, 6, <<0>>)>> },
        chunks \in SeqsUpTo(ChunkPool, MaxChunks),
        modules \in { Undefined } \cup { Def(ms) : ms \in SeqsUpTo(ModulePool, MaxModules) },
        files \in DiskChoices }

Inputs == ShapeInputs \cup PoolInputs

----------------------------------------------------------------------------
(* The analyzer run                                                        *)

\* no call yet; `given` is the stats object as it was handed to the call
NotRun ==
    [ threw |-> FALSE, retained |-> <<>>, assets |-> <<>>, chartData |-> <<>>,
      given |-> <<>> ]

MaxClients == 2
MaxCalls == 2

\* failed sends the transport produces while that many are logged or still
\* waiting for their 'error' listener
MaxErrors == 1

ClientIds == 1..MaxClients

\* the options of the BundleAnalyzerPlugin constructor that the 'done'
\* handler reads, at their defaults
DefaultOpts ==
    [ analyzerMode |-> "server", startAnalyzer |-> TRUE, generateStatsFile |-> FALSE ]

\* new BundleAnalyzerPlugin(o): this.server = null, nothing scheduled
PluginInit(o) ==
    /\ opts = o
    /\ server = Null
    /\ reporters = <<>>
    /\ doneStats = <<>>
    /\ immediates = <<>>
    /\ reactions = <<>>
    /\ microtasks = <<>>
    /\ updates = <<>>
    /\ statsFile = 0
    /\ reports = 0

\* new Folder('.'): a root folder without children
TreeInit ==
    /\ root = <<>>
    /\ added = [ op |-> "none", moduleData |-> <<>>, before |-> <<>> ]
    /\ adds = 0

ServerInit ==
    /\ started = FALSE
    /\ chartData = Null
    /\ clients = <<>>
    /\ readyState = [ c \in ClientIds |-> "CONNECTING" ]
    /\ inbox = [ c \in ClientIds |-> <<>> ]
    /\ log = <<>>
    /\ errors = <<>>
    /\ reportFile = Null
    /\ call = [ op |-> "none", stats |-> <<>>, sent |-> <<>>, threw |-> FALSE,
               outcome |-> <<>> ]
    /\ calls = 0

Init ==
    /\ \E in \in Inputs :
          /\ bundleStats = in.stats
          /\ bundleDir = in.dir
          /\ disk = in.files
          /\ excludeAssets = in.patterns
    /\ pc = "input"
    /\ viewerData = NotRun
    /\ ServerInit
    /\ TreeInit
    /\ PluginInit(DefaultOpts)

GetViewerData ==
    /\ pc = "input"
    /\ \E r \in { getViewerData(bundleStats, bundleDir, disk, excludeAssets) } :
          /\ viewerData' = [ threw |-> r.threw, retained |-> r.retained,
                             assets |-> r.assets, chartData |-> r.chartData,
                             given |-> bundleStats ]
          /\ bundleStats' = r.stats
    /\ pc' = "done"
    /\ UNCHANGED <<bundleDir, disk, excludeAssets>>
    /\ UNCHANGED serverVars
    /\ UNCHANGED treeVars
    /\ UNCHANGED pluginVars

Next == GetViewerData

Spec == Init /\ [][Next]_vars

----------------------------------------------------------------------------
(* viewer.js: the report server                                            *)

\* isPlainObject(chartData): getViewerData returns an array, which is not a
\* plain object
isPlainObject(value) == FALSE

\* getChartData(analyzerOpts, bundleStats, bundleDir): Null when the
\* analysis threw, else what getViewerData returned
NullIfFailedOrEmptyObject(r) ==
    IF r.threw THEN Null
    ELSE IF isPlainObject(r.chartData) /\ Len(r.chartData) = 0 THEN Null
    ELSE Def(r.chartData)

getChartData(stats, dir, files, patterns) ==
    NullIfFailedOrEmptyObject(getViewerData(stats, dir, files, patterns))

ChartDataUpdated(data) == [ event |-> "chartDataUpdated", data |-> data ]

\* the error a failed send raises: a network error carries an errno
ErrorOf(c, outcome) ==
    [ client |-> c, errno |-> outcome = "network", message |-> "boom" ]

\* client.send(...) to an open client.  The transport reports a failed send
\* through the client's 'error' event, which is emitted after
\* updateChartData has returned.
SendTo(acc, c, outcome, data) ==
    [ acc EXCEPT
        !.sent = Append(@, c),
        !.inbox = IF outcome[c] = "delivered"
                  THEN [ @ EXCEPT ![c] = Append(@, ChartDataUpdated(data)) ] ELSE @,
        !.errors = IF outcome[c] = "delivered" THEN @
                   ELSE Append(@, ErrorOf(c, outcome[c])) ]

\* a broadcast that gives up at the first failed send and throws
RECURSIVE BroadcastAbortOnFailure(_, _, _, _, _)
BroadcastAbortOnFailure(order, states, outcome, data, acc) ==
    IF order = <<>> THEN acc
    ELSE IF states[Head(order)] # "OPEN"
    THEN BroadcastAbortOnFailure(Tail(order), states, outcome, data, acc)
    ELSE IF outcome[Head(order)] # "delivered"
    THEN [ acc EXCEPT !.sent = Append(@, Head(order)), !.threw = TRUE ]
    ELSE BroadcastAbortOnFailure(Tail(order), states, outcome, data,
                                 SendTo(acc, Head(order), outcome, data))

\* wss.clients.forEach(client => { if (client.readyState === OPEN) client.send(...) })
RECURSIVE Broadcast(_, _, _, _, _)
Broadcast(order, states, outcome, data, acc) ==
    IF order = <<>> THEN acc
    ELSE Broadcast(Tail(order), states, outcome, data,
                   IF states[Head(order)] = "OPEN"
                   THEN SendTo(acc, Head(order), outcome, data)
                   ELSE acc)

\* the stats objects the compiler hands to the server
ServerStats ==
    { Stats(<<Asset(N_a, 5, <<0>>)>>, <<>>, <<Chunk(0, Def(<<M1>>))>>, Undefined, <<>>),
      Stats(<<Asset(N_b, 7, <<1>>)>>, <<>>, <<>>, Undefined, <<>>),
      Stats(<<Asset(N_c, 3, <<>>)>>, <<>>, <<>>, Undefined, <<>>),
      Stats(<<>>, <<K1, K2>>, <<>>, Undefined, <<>>) }

Outcomes == { "delivered", "network", "error" }

InitServer ==
    /\ bundleStats = Stats(<<>>, <<>>, <<>>, Undefined, <<>>)
    /\ bundleDir = FALSE
    /\ disk = NoDisk
    /\ excludeAssets = <<>>
    /\ pc = "server"
    /\ viewerData = NotRun
    /\ ServerInit
    /\ TreeInit
    /\ PluginInit(DefaultOpts)

\* startServer(bundleStats, opts) up to its await: the chart data is
\* computed, which changes the stats object handed in; without chart data
\* the call returns, else the HTTP server is asked to listen
StartServer(stats) ==
    /\ pc = "server"
    /\ call.op = "none"
    /\ \E r \in { getViewerData(stats, bundleDir, disk, excludeAssets) } :
          /\ bundleStats' = r.stats
          /\ chartData' = NullIfFailedOrEmptyObject(r)
          /\ pc' = IF r.threw THEN "server" ELSE "listening"
    /\ call' = [ op |-> "startServer", stats |-> stats, sent |-> <<>>,
                 threw |-> FALSE, outcome |-> <<>> ]
    /\ UNCHANGED <<bundleDir, disk, excludeAssets, viewerData>>
    /\ UNCHANGED <<started, clients, readyState, inbox, log, errors, calls, reportFile>>
    /\ UNCHANGED treeVars
    /\ UNCHANGED pluginVars

\* the callback of server.listen and the rest of startServer: the WebSocket
\* server is created and the caller gets the server object
Listening ==
    /\ pc = "listening"
    /\ pc' = "serving"
    /\ started' = TRUE
    /\ UNCHANGED <<bundleStats, bundleDir, disk, excludeAssets, viewerData>>
    /\ UNCHANGED <<chartData, clients, readyState, inbox, log, errors, call, calls, reportFile>>
    /\ UNCHANGED treeVars
    /\ UNCHANGED pluginVars

\* wss 'connection': a viewer connects and its 'error' listener is registered;
\* the sockets are numbered in the order they connect
Connect(c) ==
    /\ started
    /\ readyState[c] = "CONNECTING"
    /\ \A d \in 1..(c - 1) : readyState[d] # "CONNECTING"
    /\ readyState' = [ readyState EXCEPT ![c] = "OPEN" ]
    /\ clients' = Append(clients, c)
    /\ inbox' = [ inbox EXCEPT ![c] = <<>> ]
    /\ UNCHANGED analyzerVars
    /\ UNCHANGED treeVars
    /\ UNCHANGED pluginVars
    /\ UNCHANGED <<started, chartData, log, errors, call, calls, reportFile>>

\* a viewer starts closing: it stays in wss.clients until the close completes
BeginClose(c) ==
    /\ readyState[c] = "OPEN"
    /\ readyState' = [ readyState EXCEPT ![c] = "CLOSING" ]
    /\ UNCHANGED analyzerVars
    /\ UNCHANGED treeVars
    /\ UNCHANGED pluginVars
    /\ UNCHANGED <<started, chartData, clients, inbox, log, errors, call, calls, reportFile>>

\* the close completes: the viewer leaves wss.clients
Closed(c) ==
    /\ readyState[c] \in { "OPEN", "CLOSING" }
    /\ readyState' = [ readyState EXCEPT ![c] = "CLOSED" ]
    /\ clients' = SelectSeq(clients, LAMBDA x : x # c)
    /\ inbox' = [ inbox EXCEPT ![c] = <<>> ]
    /\ UNCHANGED analyzerVars
    /\ UNCHANGED treeVars
    /\ UNCHANGED pluginVars
    /\ UNCHANGED <<started, chartData, log, errors, call, calls, reportFile>>

\* the body of updateChartData after its first statement: the early return,
\* the assignment to chartData and the broadcast
ReplaceAndBroadcast(stats, newChartData, outcome) ==
    IF newChartData = Null
    THEN /\ UNCHANGED <<chartData, errors>>
         /\ inbox' = [ c \in ClientIds |-> <<>> ]
         /\ call' = [ op |-> "updateChartData", stats |-> stats, sent |-> <<>>,
                      threw |-> FALSE, outcome |-> outcome ]
    ELSE /\ chartData' = newChartData
         /\ \E done \in { Broadcast(clients, readyState, outcome, Val(newChartData),
                                    [ inbox |-> [ c \in ClientIds |-> <<>> ],
                                      errors |-> errors,
                                      sent |-> <<>>, threw |-> FALSE ]) } :
               /\ Len(done.errors) + Len(log) <= MaxErrors
               /\ inbox' = done.inbox
               /\ errors' = done.errors
               /\ call' = [ op |-> "updateChartData", stats |-> stats, sent |-> done.sent,
                            threw |-> done.threw, outcome |-> outcome ]

\* updateChartData(bundleStats); outcome is what the transport does with
\* each send of the broadcast
updateChartData(stats) ==
    /\ started
    /\ calls < MaxCalls
    /\ calls' = calls + 1
    /\ \E r \in { getViewerData(stats, bundleDir, disk, excludeAssets) } :
          /\ bundleStats' = r.stats
          /\ \E outcome \in [ { c \in ClientIds : readyState[c] = "OPEN" } -> Outcomes ] :
                ReplaceAndBroadcast(stats, NullIfFailedOrEmptyObject(r), outcome)
    /\ UNCHANGED <<pc, bundleDir, disk, excludeAssets, viewerData>>
    /\ UNCHANGED <<started, clients, readyState, log, reportFile>>
    /\ UNCHANGED treeVars
    /\ UNCHANGED pluginVars

\* ws.on('error', err => ...): the oldest pending 'error' event of a client
\* reaches its listener, which ignores an error with an errno and logs the
\* message of any other
OnError(i) ==
    /\ i \in DOMAIN errors
    /\ \A j \in 1..(i - 1) : errors[j].client # errors[i].client
    /\ errors' = SubSeq(errors, 1, i - 1) \o SubSeq(errors, i + 1, Len(errors))
    /\ log' = IF errors[i].errno THEN log
              ELSE Append(log, << "info", errors[i].message >>)
    /\ UNCHANGED analyzerVars
    /\ UNCHANGED treeVars
    /\ UNCHANGED pluginVars
    /\ UNCHANGED <<started, chartData, clients, readyState, inbox, call, calls, reportFile>>

\* the report a generator is about to write
Report(mode, data) == [ mode |-> mode, chartData |-> data, saved |-> FALSE ]

\* generateReport / generateJSONReport up to the first await: the chart data
\* is computed, which changes the stats object handed in; without chart
\* data the call returns
Generate(mode, stats) ==
    /\ pc = "server"
    /\ call.op = "none"
    /\ \E r \in { getViewerData(stats, bundleDir, disk, excludeAssets) } :
          /\ bundleStats' = r.stats
          /\ reportFile' = IF NullIfFailedOrEmptyObject(r) = Null THEN Null
                           ELSE Def(Report(mode, Val(NullIfFailedOrEmptyObject(r))))
          /\ pc' = IF NullIfFailedOrEmptyObject(r) = Null THEN "returned"
                   ELSE IF mode = "static" THEN "rendering"
                   ELSE "mkdir"
    /\ call' = [ op |-> mode, stats |-> stats, sent |-> <<>>,
                 threw |-> FALSE, outcome |-> <<>> ]
    /\ UNCHANGED <<bundleDir, disk, excludeAssets, viewerData>>
    /\ UNCHANGED <<started, chartData, clients, readyState, inbox, log, errors, calls>>
    /\ UNCHANGED treeVars
    /\ UNCHANGED pluginVars

\* generateReport(bundleStats, opts)
generateReport(stats) == Generate("static", stats)

\* generateJSONReport(bundleStats, opts)
generateJSONReport(stats) == Generate("json", stats)

\* what the callback of ejs.renderFile can come to: the file written and
\* the path logged, the template's error logged, or the directory or the
\* file not written
RenderOutcomes == { "saved", "renderError", "writeError" }

\* the callback of ejs.renderFile in generateReport: on an error of the
\* template logger.error and reject; else mkdirSync, writeFileSync and
\* logger.info, and a throw of these rejects with nothing logged
Rendered(outcome) ==
    /\ pc = "rendering"
    /\ pc' = "returned"
    /\ reportFile' = IF outcome = "saved"
                     THEN Def([ Val(reportFile) EXCEPT !.saved = TRUE ])
                     ELSE reportFile
    /\ log' = CASE outcome = "saved" -> Append(log, << "info", "saved" >>)
                [] outcome = "renderError" -> Append(log, << "error", "render" >>)
                [] outcome = "writeError" -> log
    /\ call' = [ call EXCEPT !.threw = outcome # "saved" ]
    /\ UNCHANGED <<bundleStats, bundleDir, disk, excludeAssets, viewerData>>
    /\ UNCHANGED <<started, chartData, clients, readyState, inbox, errors, calls>>
    /\ UNCHANGED treeVars
    /\ UNCHANGED pluginVars

\* generateJSONReport: await fs.promises.mkdir(...) settles; a failure
\* rejects the promise of the call
MkdirDone(ok) ==
    /\ pc = "mkdir"
    /\ pc' = IF ok THEN "writeFile" ELSE "returned"
    /\ call' = [ call EXCEPT !.threw = ~ok ]
    /\ UNCHANGED <<bundleStats, bundleDir, disk, excludeAssets, viewerData>>
    /\ UNCHANGED <<started, chartData, clients, readyState, inbox, log, errors,
                   reportFile, calls>>
    /\ UNCHANGED treeVars
    /\ UNCHANGED pluginVars

\* generateJSONReport: fs.promises.writeFile(...) puts the file on disk, or
\* fails and rejects the promise of the call
FileWritten(ok) ==
    /\ pc = "writeFile"
    /\ pc' = IF ok THEN "written" ELSE "returned"
    /\ reportFile' = IF ok THEN Def([ Val(reportFile) EXCEPT !.saved = TRUE ])
                     ELSE reportFile
    /\ call' = [ call EXCEPT !.threw = ~ok ]
    /\ UNCHANGED <<bundleStats, bundleDir, disk, excludeAssets, viewerData>>
    /\ UNCHANGED <<started, chartData, clients, readyState, inbox, log, errors, calls>>
    /\ UNCHANGED treeVars
    /\ UNCHANGED pluginVars

\* generateJSONReport after the await of writeFile: logger.info
ReportLogged ==
    /\ pc = "written"
    /\ pc' = "returned"
    /\ log' = Append(log, << "info", "saved" >>)
    /\ UNCHANGED <<bundleStats, bundleDir, disk, excludeAssets, viewerData>>
    /\ UNCHANGED <<started, chartData, clients, readyState, inbox, errors,
                   reportFile, call, calls>>
    /\ UNCHANGED treeVars
    /\ UNCHANGED pluginVars

NextServer ==
    \/ \E stats \in ServerStats : StartServer(stats)
    \/ Listening
    \/ \E c \in ClientIds : Connect(c)
    \/ \E c \in ClientIds : BeginClose(c)
    \/ \E c \in ClientIds : Closed(c)
    \/ \E stats \in ServerStats : updateChartData(stats)
    \/ \E i \in 1..MaxErrors : OnError(i)
    \/ \E stats \in ServerStats : generateReport(stats)
    \/ \E stats \in ServerStats : generateJSONReport(stats)
    \/ \E outcome \in RenderOutcomes : Rendered(outcome)
    \/ \E ok \in BOOLEAN : MkdirDone(ok)
    \/ \E ok \in BOOLEAN : FileWritten(ok)
    \/ ReportLogged

SpecServer == InitServer /\ [][NextServer]_vars

----------------------------------------------------------------------------
(* tree/Folder.js: a sequence of addModule calls on one root folder        *)

MaxAdds == 3
MaxDepth == 3

TreeNames == { "lib", "x" }

\* the path parts getModulePathParts can give: never an empty list
TreePaths == { p \in SeqsUpTo(TreeNames, MaxDepth) : p # <<>> }

\* a module record of webpack stats; `concat` stands for a record that
\* carries nested `modules`
TreeModule(id, pathParts, concat) ==
    [ id |-> id, size |-> id, chunks |-> Undefined, pathParts |-> pathParts,
      concat |-> concat, parsedSrc |-> Undefined ]

TreeModules ==
    { TreeModule(1, Def(p), FALSE) : p \in TreePaths }
        \cup { TreeModule(2, Def(p), TRUE) : p \in { q \in TreePaths : Len(q) = 1 } }
        \cup { TreeModule(3, Null, FALSE) }

InitTree ==
    /\ bundleStats = Stats(<<>>, <<>>, <<>>, Undefined, <<>>)
    /\ bundleDir = FALSE
    /\ disk = NoDisk
    /\ excludeAssets = <<>>
    /\ pc = "tree"
    /\ viewerData = NotRun
    /\ ServerInit
    /\ TreeInit
    /\ PluginInit(DefaultOpts)

\* root.addModule(moduleData)
AddModule(moduleData) ==
    /\ pc = "tree"
    /\ adds < MaxAdds
    /\ adds' = adds + 1
    /\ root' = addModule(root, moduleData)
    /\ added' = [ op |-> "addModule", moduleData |-> moduleData, before |-> root ]
    /\ UNCHANGED analyzerVars
    /\ UNCHANGED serverVars
    /\ UNCHANGED pluginVars

NextTree == \E moduleData \in TreeModules : AddModule(moduleData)

SpecTree == InitTree /\ [][NextTree]_vars

----------------------------------------------------------------------------
(* BundleAnalyzerPlugin.js: the 'done' handler and startAnalyzerServer.    *)
(* The event loop runs the setImmediate callbacks in the order they were   *)
(* scheduled and resumes the suspended async calls in the order they       *)
(* became ready.                                                           *)

MaxEvents == 3

PluginOpts ==
    [ analyzerMode : { "server", "static", "disabled" },
      startAnalyzer : BOOLEAN,
      generateStatsFile : BOOLEAN ]

\* the stats of the compilations the compiler reports
PluginStats == ServerStats

InitPlugin ==
    /\ bundleStats = Stats(<<>>, <<>>, <<>>, Undefined, <<>>)
    /\ bundleDir = FALSE
    /\ disk = NoDisk
    /\ excludeAssets = <<>>
    /\ pc = "plugin"
    /\ viewerData = NotRun
    /\ ServerInit
    /\ TreeInit
    /\ \E o \in PluginOpts : PluginInit(o)

\* the chart data of each of these stats, for a compiler that writes to a
\* MemoryFileSystem (no bundle directory), as <<stats, chart data>> pairs
ChartDataTable == { <<st, getChartData(st, FALSE, NoDisk, <<>>)>> : st \in PluginStats }

\* analyzer.getChartData(this.logger, stats, this.getBundleDirFromCompiler())
analyzerGetChartData(stats) == (CHOOSE p \in ChartDataTable : p[1] = stats)[2]

\* the handling of the deprecated `startAnalyzer` flag
ModeAfterDeprecation(o) ==
    IF o.analyzerMode = "server" /\ ~o.startAnalyzer THEN "disabled" ELSE o.analyzerMode

\* the `actions` the 'done' handler collects
ActionsFor(o) ==
    (IF o.generateStatsFile THEN << "generateStatsFile" >> ELSE <<>>)
        \o (IF ModeAfterDeprecation(o) = "server" THEN << "startAnalyzerServer" >>
            ELSE IF ModeAfterDeprecation(o) = "static" THEN << "generateStaticReport" >>
            ELSE <<>>)

\* compiler.plugin('done', stats => ...): the actions are collected and
\* handed to setImmediate
OnDone(stats) ==
    /\ pc = "plugin"
    /\ Len(doneStats) < MaxEvents
    /\ doneStats' = Append(doneStats, stats)
    /\ opts' = [ opts EXCEPT !.analyzerMode = ModeAfterDeprecation(opts) ]
    /\ immediates' =
          IF ActionsFor(opts) # <<>>
          THEN Append(immediates, [ event |-> Len(doneStats) + 1, stats |-> stats,
                                    actions |-> ActionsFor(opts) ])
          ELSE immediates
    /\ UNCHANGED <<server, reporters, reactions, microtasks, updates, statsFile, reports>>
    /\ UNCHANGED analyzerVars
    /\ UNCHANGED serverVars
    /\ UNCHANGED treeVars

\* a creation that is over stands for a server as well
HasResolvedServer ==
    /\ server # Null
    /\ reporters[Val(server)].state = "fulfilled"

\* if (this.server)
HasServer == server # Null

\* (await this.server): the call resumes once the promise is fulfilled
Await(continuation) ==
    /\ IF reporters[continuation.server].state = "fulfilled"
       THEN /\ microtasks' = Append(microtasks, [ continuation EXCEPT !.waited = FALSE ])
            /\ UNCHANGED reactions
       ELSE /\ reactions' = Append(reactions, [ continuation EXCEPT !.waited = TRUE ])
            /\ UNCHANGED microtasks
    /\ UNCHANGED <<server, reporters>>

\* this.server = reporter.createReporter(chartData, {...}): a promise of a
\* report server
CreateReporter(data) ==
    /\ reporters' = Append(reporters, [ data |-> data, state |-> "pending" ])
    /\ server' = Def(Len(reporters) + 1)
    /\ UNCHANGED <<reactions, microtasks>>

startAnalyzerServer(event, stats) ==
    \E data \in { analyzerGetChartData(stats) } :
        IF HasServer
        THEN Await([ server |-> Val(server), event |-> event, data |-> data,
                     waited |-> FALSE ])
        ELSE CreateReporter(data)

\* setImmediate(() => actions.forEach(action => action())) of the oldest
\* 'done' event not yet processed
RunImmediate ==
    /\ pc = "plugin"
    /\ immediates # <<>>
    /\ immediates' = Tail(immediates)
    /\ IF "generateStatsFile" \in Range(Head(immediates).actions)
       THEN statsFile' = Head(immediates).event
       ELSE UNCHANGED statsFile
    /\ IF "generateStaticReport" \in Range(Head(immediates).actions)
       THEN reports' = Head(immediates).event
       ELSE UNCHANGED reports
    /\ IF "startAnalyzerServer" \in Range(Head(immediates).actions)
       THEN startAnalyzerServer(Head(immediates).event, Head(immediates).stats)
       ELSE UNCHANGED <<server, reporters, reactions, microtasks>>
    /\ UNCHANGED <<opts, doneStats, updates>>
    /\ UNCHANGED analyzerVars
    /\ UNCHANGED serverVars
    /\ UNCHANGED treeVars

\* the promise of the i-th createReporter call is fulfilled with its report
\* server: the calls suspended on it become ready in the order they awaited
Fulfil(i) ==
    /\ pc = "plugin"
    /\ i \in DOMAIN reporters
    /\ reporters[i].state = "pending"
    /\ reporters' = [ reporters EXCEPT ![i].state = "fulfilled" ]
    /\ LET OnIt(c) == c.server = i
           NotOnIt(c) == c.server # i
       IN  /\ microtasks' = microtasks \o SelectSeq(reactions, OnIt)
           /\ reactions' = SelectSeq(reactions, NotOnIt)
    /\ UNCHANGED <<opts, server, doneStats, immediates, updates, statsFile, reports>>
    /\ UNCHANGED analyzerVars
    /\ UNCHANGED serverVars
    /\ UNCHANGED treeVars

\* the oldest ready call resumes: (...).updateData(chartData)
RunMicrotask ==
    /\ pc = "plugin"
    /\ microtasks # <<>>
    /\ microtasks' = Tail(microtasks)
    /\ updates' = Append(updates, Head(microtasks))
    /\ UNCHANGED <<opts, server, reporters, doneStats, immediates, reactions,
                   statsFile, reports>>
    /\ UNCHANGED analyzerVars
    /\ UNCHANGED serverVars
    /\ UNCHANGED treeVars

FulfilSome == \E i \in 1..MaxEvents : Fulfil(i)

NextPlugin ==
    \/ \E stats \in PluginStats : OnDone(stats)
    \/ RunImmediate
    \/ FulfilSome
    \/ RunMicrotask

\* the event loop keeps running what is scheduled, and a creation of a
\* report server comes to its end
SpecPlugin ==
    /\ InitPlugin
    /\ [][NextPlugin]_vars
    /\ WF_vars(RunImmediate)
    /\ WF_vars(FulfilSome)
    /\ WF_vars(RunMicrotask)

----------------------------------------------------------------------------
(* Properties of getViewerData                                             *)

Done == pc = "done" /\ ~viewerData.threw

\* the working stats object after the children have been folded in
Working == NormalizeStats(viewerData.given).stats

ChildrenOnlyShape ==
    viewerData.given.assets = <<>> /\ viewerData.given.children # <<>>

\* the retained asset that produced the record stored under a file name:
\* the last retained asset of that name
LastNamed(retained, name) ==
    retained[CHOOSE i \in DOMAIN retained :
                /\ retained[i].name = name
                /\ \A j \in DOMAIN retained : retained[j].name = name => j <= i]

\* a name up to its first "?"
BeforeQuery(name) ==
    IF \E i \in DOMAIN name : name[i] = "?"
    THEN SubSeq(name, 1, (CHOOSE i \in DOMAIN name :
                            name[i] = "?" /\ \A j \in 1..(i - 1) : name[j] # "?") - 1)
    ELSE name

BundleExtensions ==
    { <<".", "j", "s">>, <<".", "m", "j", "s">>, <<".", "g", "z">>, <<".", "b", "r">> }

\* the three conditions of the claim, on an asset as the stats carry it
Qualifies(asset) ==
    LET name == BeforeQuery(asset.name)
    IN  /\ \E ext \in BundleExtensions :
              /\ Len(name) >= Len(ext)
              /\ \A k \in DOMAIN ext :
                    ToLower(name[Len(name) - Len(ext) + k]) = ext[k]
        /\ Len(asset.chunks) > 0
        /\ \A i \in DOMAIN excludeAssets : ~Contains(name, excludeAssets[i])

\* the assets the children-only shape is meant to retain: the first child's,
\* then those of every later child flagged isChild
ChildrenOnlyExpected ==
    LET children == viewerData.given.children
        later == FlattenSeq([ i \in 1..(Len(children) - 1) |->
                                MarkChild(children[i + 1].assets) ])
    IN  SelectSeq(children[1].assets \o later, Qualifies)

\* C3: for a stats object with empty top-level assets and one or more
\* children, getViewerData completes and retains the matching assets of all
\* children: the first child's unflagged, those of later children flagged
\* isChild.
C3_ChildrenOnlyRetainsAllChildren ==
    (pc = "done" /\ ChildrenOnlyShape) =>
        /\ ~viewerData.threw
        /\ Len(viewerData.retained) = Len(ChildrenOnlyExpected)
        /\ \A i \in DOMAIN viewerData.retained :
              /\ viewerData.retained[i].name = BeforeQuery(ChildrenOnlyExpected[i].name)
              /\ viewerData.retained[i].isChild = ChildrenOnlyExpected[i].isChild

\* C4: an asset is retained exactly when its query-stripped name has a bundle
\* extension, it has chunks and no exclusion pattern matches it; the retained
\* assets keep their order, and no excluded asset is in the chart data.
C4_RetainedIffQualifies ==
    Done =>
        /\ viewerData.retained =
              [ i \in DOMAIN SelectSeq(Working.assets, Qualifies) |->
                  [ SelectSeq(Working.assets, Qualifies)[i] EXCEPT !.name = BeforeQuery(@) ] ]
        /\ \A i \in DOMAIN viewerData.chartData :
              /\ \E j \in DOMAIN Working.assets :
                    /\ Qualifies(Working.assets[j])
                    /\ BeforeQuery(Working.assets[j].name) = viewerData.chartData[i].label
              /\ \A k \in DOMAIN excludeAssets :
                    ~Contains(viewerData.chartData[i].label, excludeAssets[k])

\* C4 witness: a run that retains an asset and drops one for each reason
W_C4_RetainedAndDropped ==
    /\ Done
    /\ viewerData.retained # <<>>
    /\ \E i \in DOMAIN Working.assets :
          Working.assets[i].chunks = <<>>
    /\ \E i \in DOMAIN Working.assets :
          ~FILENAME_EXTENSIONS(BeforeQuery(Working.assets[i].name))
    /\ \E i \in DOMAIN Working.assets :
          /\ FILENAME_EXTENSIONS(BeforeQuery(Working.assets[i].name))
          /\ Working.assets[i].chunks # <<>>
          /\ ~Qualifies(Working.assets[i])

\* a stats object as it would be had every file name in it carried no query:
\* the asset names and the names listed in assetsByChunkName, in the object
\* and in the builds below it
RECURSIVE WithoutQueries(_)
WithoutQueries(stats) ==
    [ stats EXCEPT
        !.assets = [ i \in DOMAIN @ |-> [ @[i] EXCEPT !.name = BeforeQuery(@) ] ],
        !.assetsByChunkName =
            [ i \in DOMAIN @ |->
                << @[i][1], [ j \in DOMAIN @[i][2] |-> BeforeQuery(@[i][2][j]) ] >> ],
        !.children = [ i \in DOMAIN @ |-> WithoutQueries(@[i]) ] ]

HasQueryName ==
    \E i \in DOMAIN Working.assets :
        \E j \in DOMAIN Working.assets[i].name : Working.assets[i].name[j] = "?"

\* C5: an asset whose stats name carries a ?query is reported under the
\* name without it, and the whole result is the one the stats would have
\* given had they carried the names without the query.
C5_QueryAsIfNeverPresent ==
    (pc = "done" /\ HasQueryName) =>
        /\ \A i \in DOMAIN viewerData.chartData :
              \A j \in DOMAIN viewerData.chartData[i].label :
                  viewerData.chartData[i].label[j] # "?"
        /\ viewerData.chartData =
              getViewerData(WithoutQueries(viewerData.given), bundleDir, disk,
                            excludeAssets).chartData

\* the modules of a build as its chunks and its modules list carry them
BuildModules(stats) ==
    UNION { Range(Val(stats.chunks[i].modules)) :
              i \in { k \in DOMAIN stats.chunks : stats.chunks[k].modules # Undefined } }
    \cup (IF stats.modules = Undefined THEN {} ELSE Range(Val(stats.modules)))

\* a module record without the parsed source the analyzer attaches to it
AsInStats(m) == [ m EXCEPT !.parsedSrc = Undefined ]

ListedBy(child, name) ==
    \E i \in DOMAIN child.assetsByChunkName :
        \E j \in DOMAIN child.assetsByChunkName[i][2] :
            child.assetsByChunkName[i][2][j] = name

\* C6: the modules of a retained asset flagged isChild are modules of a child
\* build whose assetsByChunkName lists the asset's name, never of the working
\* object; with no such child the asset has no modules and an empty tree.
C6_ChildAssetUsesChildBuild ==
    Done =>
        \A i \in DOMAIN viewerData.assets :
            LET name == viewerData.assets[i][1]
                rec == viewerData.assets[i][2]
                asset == LastNamed(viewerData.retained, name)
                listing == { k \in DOMAIN Working.children :
                               ListedBy(Working.children[k], name) }
            IN  asset.isChild =>
                  /\ listing = {} =>
                        /\ rec.modules = <<>>
                        /\ rec.tree = <<>>
                        /\ viewerData.chartData[i].statSize = asset.size
                  /\ listing # {} =>
                        \E k \in listing :
                            \A j \in DOMAIN rec.modules :
                                AsInStats(rec.modules[j]) \in BuildModules(Working.children[k])

\* C6 witness: one child asset with modules of its child build and one whose
\* name no child lists
W_C6_ChildAssetBothCases ==
    /\ Done
    /\ \E i \in DOMAIN viewerData.assets :
          /\ LastNamed(viewerData.retained, viewerData.assets[i][1]).isChild
          /\ viewerData.assets[i][2].modules # <<>>
    /\ \E i \in DOMAIN viewerData.assets :
          /\ LastNamed(viewerData.retained, viewerData.assets[i][1]).isChild
          /\ \A k \in DOMAIN Working.children :
                ~ListedBy(Working.children[k], viewerData.assets[i][1])

\* the modules of every chunk followed by the top-level modules
PoolInOrder(stats) ==
    LET present == SelectSeq([ i \in DOMAIN stats.chunks |-> stats.chunks[i].modules ],
                             LAMBDA x : x # Undefined)
    IN  FlattenSeq([ i \in DOMAIN present |-> Val(present[i]) ])
        \o (IF stats.modules = Undefined THEN <<>> ELSE Val(stats.modules))

Intersects(a, b) == Range(a) \cap Range(b) # {}

\* the positions of the pool that the claim keeps for an asset
KeptPositions(pool, asset) ==
    { i \in DOMAIN pool :
        /\ \A j \in 1..(i - 1) : pool[j].id # pool[i].id
        /\ pool[i].chunks # Undefined
        /\ Intersects(Val(pool[i].chunks), asset.chunks) }

\* C7: the modules of an asset are the pool's modules (every chunk's, then
\* the top-level ones, a later entry of a seen id dropped) whose chunks meet
\* the asset's chunks, in pool order.
C7_ModulesArePoolInOrder ==
    Done =>
        \A i \in DOMAIN viewerData.assets :
            LET rec == viewerData.assets[i][2]
                asset == LastNamed(viewerData.retained, viewerData.assets[i][1])
                pool == PoolInOrder(Working)
                kept == KeptPositions(pool, asset)
            IN  ~asset.isChild =>
                  /\ Len(rec.modules) = Cardinality(kept)
                  /\ \A j \in DOMAIN rec.modules :
                        \E k \in kept :
                            /\ AsInStats(rec.modules[j]) = pool[k]
                            /\ Cardinality({ x \in kept : x < k }) = j - 1

\* C7 witness: an asset with two modules from a pool that repeats an id
W_C7_PoolWithRepeatedId ==
    /\ Done
    /\ \E a, b \in DOMAIN PoolInOrder(Working) :
          /\ a < b
          /\ PoolInOrder(Working)[a].id = PoolInOrder(Working)[b].id
          /\ PoolInOrder(Working)[a] # PoolInOrder(Working)[b]
    /\ \E i \in DOMAIN viewerData.assets : Len(viewerData.assets[i][2].modules) >= 2
    /\ \E i \in DOMAIN viewerData.assets : viewerData.assets[i][2].modules = <<>>

\* C8: the chart data has one record per retained asset, in their order.
C8_OneRecordPerRetainedAsset ==
    Done =>
        /\ Len(viewerData.chartData) = Len(viewerData.retained)
        /\ \A i \in DOMAIN viewerData.chartData :
              i \in DOMAIN viewerData.retained
              => viewerData.chartData[i].label = viewerData.retained[i].name

ParseFails(name) == ~parseBundle(disk, name).ok

\* C9: with a bundle directory, when parseBundle fails for one retained asset
\* and succeeds for another, every retained asset has a record; the failed
\* asset's record has no parsedSize or gzipSize and none of its modules has a
\* parsed source, and a parsed asset keeps its parsed sizes.
C9_FailedAssetHasNoParsedData ==
    ( /\ pc = "done"
      /\ bundleDir
      /\ \E i \in DOMAIN viewerData.retained : ParseFails(viewerData.retained[i].name)
      /\ \E i \in DOMAIN viewerData.retained : ~ParseFails(viewerData.retained[i].name) )
    =>
        /\ ~viewerData.threw
        /\ \A i \in DOMAIN viewerData.retained :
              \E j \in DOMAIN viewerData.chartData :
                  viewerData.chartData[j].label = viewerData.retained[i].name
        /\ \A j \in DOMAIN viewerData.chartData :
              IF ParseFails(viewerData.chartData[j].label)
              THEN /\ viewerData.chartData[j].parsedSize = Undefined
                   /\ viewerData.chartData[j].gzipSize = Undefined
                   /\ LET tree == Get(viewerData.assets, viewerData.chartData[j].label).tree
                      IN  \A k \in DOMAIN tree : tree[k].src = Undefined
              ELSE /\ viewerData.chartData[j].parsedSize # Undefined
                   /\ viewerData.chartData[j].gzipSize # Undefined

\* C10: statSize is the size of the asset's tree whenever a module matched
\* the asset, and the asset's declared size when none did.
C10_StatSizeIsTreeSize ==
    Done =>
        \A i \in DOMAIN viewerData.assets :
            LET rec == viewerData.assets[i][2]
            IN  /\ rec.modules # <<>> =>
                      viewerData.chartData[i].statSize = TreeSize(rec.tree)
                /\ rec.modules = <<>> =>
                      viewerData.chartData[i].statSize = rec.size

----------------------------------------------------------------------------
(* Properties of the report server                                         *)

UpdateStep == calls' # calls

\* what getChartData gives for each stats object the server is handed, under
\* the options the server runs with, as <<stats, chart data>> pairs
ServerChartDataTable ==
    { <<st, getChartData(st, FALSE, NoDisk, <<>>)>> : st \in ServerStats }

ServerChartData(stats) == (CHOOSE p \in ServerChartDataTable : p[1] = stats)[2]

\* C1: an updateChartData call whose pipeline result is empty or falsy
\* leaves the held chart data unchanged and sends nothing; every other call
\* replaces the held data and sends to every connected observer exactly once.
C1_EmptyOrFalsyResultIsDiscarded ==
    [][ UpdateStep =>
          LET r == getViewerData(call'.stats, bundleDir, disk, excludeAssets)
          IN  IF r.threw \/ r.chartData = <<>>
              THEN /\ chartData' = chartData
                   /\ call'.sent = <<>>
                   /\ \A c \in ClientIds : inbox'[c] = <<>>
              ELSE /\ chartData' = Def(r.chartData)
                   /\ \A c \in ClientIds :
                         readyState[c] = "OPEN" =>
                             Cardinality({ i \in DOMAIN call'.sent : call'.sent[i] = c }) = 1
      ]_vars

\* C2: in the broadcast of updateChartData a failed send, or a client that is
\* no longer open, does not keep the data from the other open clients: every
\* open client is sent to, every send that does not fail is delivered, and
\* updateChartData does not throw.
C2_FailedSendDoesNotStopBroadcast ==
    [][ (UpdateStep /\ ServerChartData(call'.stats) # Null) =>
          /\ ~call'.threw
          /\ \A c \in ClientIds :
                readyState[c] = "OPEN" =>
                    /\ \E i \in DOMAIN call'.sent : call'.sent[i] = c
                    /\ call'.outcome[c] = "delivered" =>
                          inbox'[c] = << ChartDataUpdated(Val(chartData')) >>
      ]_vars

\* C2 witness: a broadcast in which a send failed and a client after it in
\* wss.clients received the data
W_C2_DeliveredAfterFailedSend ==
    /\ call.op = "updateChartData"
    /\ \E i, j \in DOMAIN call.sent :
          /\ i < j
          /\ call.outcome[call.sent[i]] # "delivered"
          /\ inbox[call.sent[j]] # <<>>

----------------------------------------------------------------------------
(* Properties of the composition tree                                      *)

AddDone == added.op = "addModule"

Prefix(parts, k) == SubSeq(parts, 1, k)

\* the tree has that node
HasNode(tree, n) == \E i \in DOMAIN tree : tree[i] = n

\* the tree has a Folder node at that path
HasFolder(tree, p) == \E i \in DOMAIN tree : tree[i].path = p /\ tree[i].kind = "Folder"

NodesAt(tree, p) == { tree[i] : i \in { j \in DOMAIN tree : tree[j].path = p } }

UniqueNames(tree) == \A i, j \in DOMAIN tree : tree[i].path = tree[j].path => i = j

\* every node hangs below the root through Folder nodes only
OnlyFoldersAbove(tree) ==
    \A i \in DOMAIN tree :
        /\ tree[i].path # <<>>
        /\ \A k \in 1..(Len(tree[i].path) - 1) : HasFolder(tree, Prefix(tree[i].path, k))

\* a node of the tree the call found that the call discards: a non-Folder
\* node at a folder position of the path, and whatever held the module's
\* own name, with all below it
DiscardedBy(n, parts) ==
    \/ \E k \in 1..(Len(parts) - 1) :
          n.path = Prefix(parts, k) /\ n.kind # "Folder"
    \/ IsPrefix(parts, n.path)

AddedModuleNode(moduleData) ==
    [ path |-> Val(moduleData.pathParts),
      kind |-> IF moduleData.concat THEN "ConcatenatedModule" ELSE "Module",
      size |-> moduleData.size,
      id |-> Def(moduleData.id),
      src |-> moduleData.parsedSrc ]

\* C11: after every addModule call in any sequence of calls on a root
\* folder, the folder positions of the record's path hold Folder nodes and
\* the new module is the child with the last name under the last of them; a
\* Folder that was on the path is still there with its other children, a
\* non-Folder node that was at a folder position is gone and the Folder in
\* its place holds nothing but the continuation of the path, no folder has
\* two children of one name, and a record without usable path parts leaves
\* the tree as it was.
C11_AddModulePlacesModuleUnderFolders ==
    AddDone =>
        LET moduleData == added.moduleData
            before == added.before
        IN  /\ UniqueNames(root)
            /\ OnlyFoldersAbove(root)
            /\ moduleData.pathParts = Null => root = before
            /\ moduleData.pathParts # Null =>
                  LET parts == Val(moduleData.pathParts)
                      n == Len(parts)
                  IN  /\ \A k \in 1..(n - 1) : HasFolder(root, Prefix(parts, k))
                      /\ NodesAt(root, parts) = { AddedModuleNode(moduleData) }
                      /\ \A i \in DOMAIN before :
                            (Len(before[i].path) < n
                               /\ before[i].path = Prefix(parts, Len(before[i].path)))
                            => IF before[i].kind = "Folder"
                               THEN /\ HasNode(root, before[i])
                                    /\ \A j \in DOMAIN before :
                                          (IsPrefix(before[i].path, before[j].path)
                                             /\ ~DiscardedBy(before[j], parts))
                                          => HasNode(root, before[j])
                               ELSE /\ ~HasNode(root, before[i])
                                    /\ \A j \in DOMAIN root :
                                          IsPrefix(before[i].path, root[j].path)
                                          => IsPrefix(root[j].path, parts)
                      /\ \A i \in DOMAIN before :
                            ~DiscardedBy(before[i], parts) => HasNode(root, before[i])
                      /\ \A j \in DOMAIN root :
                            HasNode(before, root[j]) \/ IsPrefix(root[j].path, parts)

\* C11 witness: a call with a three-part path that found a Folder at the
\* first position, with a child off the path, and a module at the second
W_C11_FolderReusedAndLeafReplaced ==
    /\ AddDone
    /\ added.moduleData.pathParts # Null
    /\ LET parts == Val(added.moduleData.pathParts)
       IN  /\ Len(parts) = 3
           /\ \E f \in Range(added.before) :
                 f.path = Prefix(parts, 1) /\ f.kind = "Folder"
           /\ \E c \in Range(added.before) :
                 /\ Len(c.path) = 2
                 /\ IsPrefix(Prefix(parts, 1), c.path)
                 /\ c.path # Prefix(parts, 2)
                 /\ c \in Range(root)
           /\ \E m \in Range(added.before) :
                 m.path = Prefix(parts, 2) /\ m.kind # "Folder"

----------------------------------------------------------------------------
(* Properties of the plugin                                                *)

\* the instance is, and stays, in server mode
ServerMode == opts.analyzerMode = "server" /\ opts.startAnalyzer

\* the number of 'done' events whose setImmediate callback has run
Processed == Len(doneStats) - Len(immediates)

\* what has happened so far: at most one creation, by the
\* first processed event, and the updates of the later processed events, on
\* that server, in the order of the events, each with its event's chart data
OneServerUpdatedInOrder ==
    /\ Len(reporters) <= 1
    /\ Processed >= 1 =>
          /\ Len(reporters) = 1
          /\ server = Def(1)
          /\ reporters[1].data = analyzerGetChartData(doneStats[1])
    /\ Len(updates) <= Processed - 1 \/ updates = <<>>
    /\ \A j \in DOMAIN updates :
          /\ updates[j].server = 1
          /\ updates[j].event = j + 1
          /\ updates[j].data = analyzerGetChartData(doneStats[j + 1])

============================================================================
